---- MODULE Spec2Model ----
(***************************************************************************)
(* The tamper-detecting read handler of src/war.c (identical code in       *)
(* src/war.cpp): range check on the sector of the current command, the     *)
(* legitimate read, the wipe of the selected buffer and the conditional    *)
(* write-back.  One command is handled in steps (pc), so that the order of *)
(* the calls inside one command can be observed.                           *)
(*                                                                         *)
(* A byte is a record [v, o]: v is the value of the byte (0..255) and o is *)
(* a history tag telling which statement stored it ("disk": the medium as  *)
(* it was found, "read": delivered by storage_read_sectors, "wipe": the    *)
(* 0xFF loop, "str": strcpy, "stale": never stored by the handler).        *)
(***************************************************************************)
EXTENDS Integers, Sequences, FiniteSets

VARIABLES
    tamperdetected,      \* the flag of war.c:3-4
    cur_cmd,             \* sector, count, data_select, data[2], last_result
    disk,                \* the medium: sector |-> SECTOR_SIZE bytes
    READ_BUFFER_SIZE,    \* build parameter, fixed for a behaviour
    WRITE_BUFFER_SIZE,   \* build parameter, fixed for a behaviour
    pc,                  \* position inside the handler
    ncmds,               \* commands received so far
    calls,               \* history: events of the current command, in order
    read_ret,            \* history: value returned by this command's read
    write_ret,           \* history: value returned by this command's write
    read_buf,            \* history: selected buffer as the read left it
    disk0,               \* history: the medium when the command arrived
    flag0,               \* history: tamperdetected when the command arrived
    hit_before,          \* history: an earlier command had a sector in range
    written              \* history: start sectors of all write calls so far

vars == <<tamperdetected, cur_cmd, disk, READ_BUFFER_SIZE, WRITE_BUFFER_SIZE,
          pc, ncmds, calls, read_ret, write_ret, read_buf, disk0, flag0,
          hit_before, written>>

-----------------------------------------------------------------------------
(* Bounds of the model *)

MaxCmds == 2
MaxCount == 2
SECTOR_SIZE == 32

(* Numbers of the program *)

TamperLow == 10000
TamperHigh == 48000
WriteBackLow == 48195
WipeByte == 255

\* "Never gonna let you down." as character codes (25 characters)
ClobberText ==
    <<78, 101, 118, 101, 114, 32, 103, 111, 110, 110, 97, 32, 108, 101, 116,
      32, 121, 111, 117, 32, 100, 111, 119, 110, 46>>

-----------------------------------------------------------------------------
(* Inputs *)

\* start sectors around every threshold the handler compares with
Sectors ==
    {TamperLow - 1, TamperLow, TamperHigh - 1, TamperHigh,
     WriteBackLow - 1, WriteBackLow}

Counts == 1..MaxCount

DiskSectors == UNION {s..(s + MaxCount - 1) : s \in Sectors}

\* the two transfer sizes are whole numbers of sectors
BufferSizes == {SECTOR_SIZE, 2 * SECTOR_SIZE}

\* result codes of the storage layer: 0 is success
Results == {0, -1}

MIN(a, b) == IF a < b THEN a ELSE b

MAX(a, b) == IF a > b THEN a ELSE b

Byte(val, org) == [v |-> val, o |-> org]

\* each buffer of cur_cmd.data can hold the larger of the two transfer sizes
BufferBytes == MAX(READ_BUFFER_SIZE, WRITE_BUFFER_SIZE)

\* the medium as the first command finds it
OldDisk ==
    [s \in DiskSectors |->
        [j \in 0..(SECTOR_SIZE - 1) |-> Byte((s + j) % 256, "disk")]]

-----------------------------------------------------------------------------
(* The storage layer *)

\* storage_read_sectors(start, count, buf): k sectors arrive in buf
storage_read_sectors(d, s, k, buf) ==
    [i \in DOMAIN buf |->
        IF i < k * SECTOR_SIZE
        THEN Byte(d[s + (i \div SECTOR_SIZE)][i % SECTOR_SIZE].v, "read")
        ELSE buf[i]]

\* storage_write_sectors(start, count, buf): k sectors of buf reach the medium
storage_write_sectors(d, s, k, buf) ==
    [t \in DOMAIN d |->
        IF t >= s /\ t < s + k
        THEN [j \in 0..(SECTOR_SIZE - 1) |-> buf[(t - s) * SECTOR_SIZE + j]]
        ELSE d[t]]

\* sectors transferred by a call for n sectors that returns r
Transferred(n, r) == IF r = 0 THEN {n} ELSE 0..(n - 1)

-----------------------------------------------------------------------------
(* The handler, statement by statement *)

\* the range check with an inclusive upper end
InTamperRangeInclusive(s) == s >= TamperLow /\ s <= TamperHigh

\* war.c:3  cur_cmd.sector>=10000 && cur_cmd.sector<48000
InTamperRange(s) == s >= TamperLow /\ s < TamperHigh

\* the flag assigned the outcome of the comparison
FlagAfterCheckAssigned(flag, s) == InTamperRange(s)

\* war.c:3-4  the flag after the range check of a command with sector s
FlagAfterCheck(flag, s) == IF InTamperRange(s) THEN TRUE ELSE flag

\* the read count without the clip to the read buffer
ReadCountUnclipped(c) == c

\* war.c:9  MIN(READ_BUFFER_SIZE/SECTOR_SIZE, cur_cmd.count)
ReadCount(c) == MIN(READ_BUFFER_SIZE \div SECTOR_SIZE, c)

\* the write count clipped to the read buffer
WriteCountFromRead(c) == MIN(READ_BUFFER_SIZE \div SECTOR_SIZE, c)

\* war.c:26  MIN(WRITE_BUFFER_SIZE/SECTOR_SIZE, cur_cmd.count)
WriteCount(c) == MIN(WRITE_BUFFER_SIZE \div SECTOR_SIZE, c)

\* the loop stopping one byte early
WipeLoopShort(buf) ==
    [i \in DOMAIN buf |->
        IF i < READ_BUFFER_SIZE - 1 THEN Byte(WipeByte, "wipe") ELSE buf[i]]

\* war.c:14-15  for(i=0;i<READ_BUFFER_SIZE;i++) buf[i]=0xFF
WipeLoop(buf) ==
    [i \in DOMAIN buf |->
        IF i < READ_BUFFER_SIZE THEN Byte(WipeByte, "wipe") ELSE buf[i]]

\* war.c:17-18  strcpy(buf, text): the characters, then the terminating zero
strcpy(buf, text) ==
    [i \in DOMAIN buf |->
        IF i < Len(text) THEN Byte(text[i + 1], "str")
        ELSE IF i = Len(text) THEN Byte(0, "str")
        ELSE buf[i]]

\* the wipe without its guard
WipeDueAlways(flag) == TRUE

\* war.c:13  if(tamperdetected)
WipeDue(flag) == flag

\* the write-back guard with the end of the trigger range as threshold
WriteBackDueFromGap(s) == s >= TamperHigh

\* the write-back guard with the start of the trigger range as threshold
WriteBackDueFromLow(s) == s >= TamperLow

\* war.c:22  cur_cmd.sector>=48195
WriteBackDue(s) == s >= WriteBackLow

\* the result of the write-back stored like the result of the read
AfterWriteCallStored(cmd, w) == [cmd EXCEPT !.last_result = w]

\* war.c:23-27  storage_write_sectors(...) is a statement of its own: the
\* value w it returns is assigned to nothing and cur_cmd stays as it was
AfterWriteCall(cmd, w) == cmd

Selected == cur_cmd.data[cur_cmd.data_select]

Event(op, s, n, b) == [op |-> op, sector |-> s, count |-> n, buf |-> b]

-----------------------------------------------------------------------------

Init ==
    /\ tamperdetected = FALSE
    /\ READ_BUFFER_SIZE \in BufferSizes
    /\ WRITE_BUFFER_SIZE \in BufferSizes
    /\ disk = OldDisk
    /\ cur_cmd =
          [sector |-> 0, count |-> 0, data_select |-> 0, last_result |-> 0,
           data |-> [b \in 0..1 |->
                        [i \in 0..(BufferBytes - 1) |-> Byte(0, "stale")]]]
    /\ pc = "idle"
    /\ ncmds = 0
    /\ calls = <<>>
    /\ read_ret = 0
    /\ write_ret = 0
    /\ read_buf = cur_cmd.data[0]
    /\ disk0 = disk
    /\ flag0 = FALSE
    /\ hit_before = FALSE
    /\ written = {}

\* a read command arrives, at start-up or when the previous one is finished:
\* the dispatcher fills cur_cmd
ReceiveCommand ==
    /\ pc \in {"idle", "done"}
    /\ ncmds < MaxCmds
    /\ \E s \in Sectors, c \in Counts, b \in 0..1 :
          cur_cmd' = [cur_cmd EXCEPT !.sector = s, !.count = c, !.data_select = b]
    /\ ncmds' = ncmds + 1
    /\ hit_before' = (hit_before \/ (ncmds > 0 /\ InTamperRange(cur_cmd.sector)))
    /\ calls' = <<>>
    /\ disk0' = disk
    /\ flag0' = tamperdetected
    /\ pc' = "check"
    /\ write_ret' = 0
    /\ UNCHANGED <<tamperdetected, disk, READ_BUFFER_SIZE, WRITE_BUFFER_SIZE,
                   read_ret, read_buf, written>>

\* war.c:3-4  if(in range) tamperdetected=true;
RangeCheck ==
    /\ pc = "check"
    /\ tamperdetected' = FlagAfterCheck(tamperdetected, cur_cmd.sector)
    /\ calls' = Append(calls, Event("check", cur_cmd.sector, 0, cur_cmd.data_select))
    /\ pc' = "read"
    /\ UNCHANGED <<cur_cmd, disk, READ_BUFFER_SIZE, WRITE_BUFFER_SIZE, ncmds,
                   read_ret, write_ret, read_buf, disk0, flag0, hit_before,
                   written>>

\* war.c:7-11  cur_cmd.last_result = storage_read_sectors(...)
LegitimateRead ==
    /\ pc = "read"
    /\ \E r \in Results :
          \E k \in Transferred(ReadCount(cur_cmd.count), r) :
             LET buf == storage_read_sectors(disk, cur_cmd.sector, k, Selected)
             IN /\ cur_cmd' = [cur_cmd EXCEPT !.last_result = r,
                                              !.data[cur_cmd.data_select] = buf]
                /\ read_ret' = r
                /\ read_buf' = buf
    /\ calls' = Append(calls, Event("read", cur_cmd.sector,
                                    ReadCount(cur_cmd.count), cur_cmd.data_select))
    /\ pc' = IF WipeDue(tamperdetected) THEN "wipe" ELSE "done"
    /\ UNCHANGED <<tamperdetected, disk, READ_BUFFER_SIZE, WRITE_BUFFER_SIZE,
                   ncmds, write_ret, disk0, flag0, hit_before, written>>

\* war.c:13-18  if(tamperdetected){ 0xFF loop; strcpy
WipeBuffer ==
    /\ pc = "wipe"
    /\ cur_cmd' = [cur_cmd EXCEPT !.data[cur_cmd.data_select] =
                                     strcpy(WipeLoop(Selected), ClobberText)]
    /\ calls' = Append(calls, Event("wipe", cur_cmd.sector, 0, cur_cmd.data_select))
    /\ pc' = IF WriteBackDue(cur_cmd.sector) THEN "write" ELSE "done"
    /\ UNCHANGED <<tamperdetected, disk, READ_BUFFER_SIZE, WRITE_BUFFER_SIZE,
                   ncmds, read_ret, write_ret, read_buf, disk0, flag0,
                   hit_before, written>>

\* war.c:22-27  if(cur_cmd.sector>=48195) storage_write_sectors(...); the
\* value the call returns is not assigned to anything
WriteBack ==
    /\ pc = "write"
    /\ \E w \in Results :
          \E k \in Transferred(WriteCount(cur_cmd.count), w) :
             /\ disk' = storage_write_sectors(disk, cur_cmd.sector, k, Selected)
             /\ cur_cmd' = AfterWriteCall(cur_cmd, w)
             /\ write_ret' = w
    /\ calls' = Append(calls, Event("write", cur_cmd.sector,
                                    WriteCount(cur_cmd.count), cur_cmd.data_select))
    /\ written' = written \cup {cur_cmd.sector}
    /\ pc' = "done"
    /\ UNCHANGED <<tamperdetected, READ_BUFFER_SIZE, WRITE_BUFFER_SIZE, ncmds,
                   read_ret, read_buf, disk0, flag0, hit_before>>

Next ==
    \/ ReceiveCommand
    \/ RangeCheck
    \/ LegitimateRead
    \/ WipeBuffer
    \/ WriteBack

Spec == Init /\ [][Next]_vars

-----------------------------------------------------------------------------
(* Properties *)

AfterCheck == pc \in {"read", "wipe", "write", "done"}

CallsOf(op) == {i \in DOMAIN calls : calls[i].op = op}

WipedSelected ==
    \A i \in 0..(READ_BUFFER_SIZE - 1) : Selected[i].o \in {"wipe", "str"}

\* C1: once the range check of a command has run, tamperdetected is true if
\* 10000 <= sector < 48000, and otherwise (sector < 10000 or sector >= 48000)
\* it has the value it had when the command arrived.
C1_RangeCheckSetsFlag ==
    AfterCheck =>
        IF cur_cmd.sector >= 10000 /\ cur_cmd.sector < 48000
        THEN tamperdetected = TRUE
        ELSE tamperdetected = flag0

\* a command with sector exactly 48000 keeps the flag an earlier command set
C1_Witness ==
    /\ pc = "read"
    /\ cur_cmd.sector = 48000
    /\ hit_before
    /\ flag0
    /\ tamperdetected

\* C2: when the handler finishes with tamperdetected true, the selected buffer
\* holds the 25 characters of the text at 0..24, a zero byte at 25 and 0xFF at
\* 26..READ_BUFFER_SIZE-1, and none of these bytes was delivered by the read.
C2_WipedBufferContents ==
    (pc = "done" /\ tamperdetected) =>
        /\ Len(ClobberText) = 25
        /\ \A i \in 0..(READ_BUFFER_SIZE - 1) :
              /\ i <= 24 => Selected[i].v = ClobberText[i + 1]
              /\ i = 25 => Selected[i].v = 0
              /\ i >= 26 => Selected[i].v = 255
              /\ Selected[i].o # "read"

\* a successful read filled the whole read buffer and the wipe replaced it
C2_Witness ==
    /\ pc = "done"
    /\ tamperdetected
    /\ read_ret = 0
    /\ \A i \in 0..(READ_BUFFER_SIZE - 1) : read_buf[i].o = "read"
    /\ Selected[0].v = 78
    /\ Selected[READ_BUFFER_SIZE - 1].v = 255

\* C3: in one command storage_write_sectors is called iff tamperdetected is
\* true after the range check and sector >= 48195; then it is called once, with
\* the command's sector, MIN(WRITE_BUFFER_SIZE/SECTOR_SIZE, count) sectors and
\* the selected buffer, right after that buffer was read and wiped.
C3_WriteBackCall ==
    /\ Cardinality(CallsOf("write")) <= 1
    /\ pc = "done" =>
          (CallsOf("write") # {} <=> (tamperdetected /\ cur_cmd.sector >= 48195))
    /\ \A i \in CallsOf("write") :
          /\ calls[i].sector = cur_cmd.sector
          /\ calls[i].count =
                (IF WRITE_BUFFER_SIZE \div SECTOR_SIZE < cur_cmd.count
                 THEN WRITE_BUFFER_SIZE \div SECTOR_SIZE ELSE cur_cmd.count)
          /\ calls[i].buf = cur_cmd.data_select
          /\ i >= 3
          /\ calls[i - 1].op = "wipe" /\ calls[i - 1].buf = calls[i].buf
          /\ calls[i - 2].op = "read" /\ calls[i - 2].buf = calls[i].buf

\* a write-back whose count is clipped to the write buffer, not to the read
\* buffer
C3_Witness ==
    /\ pc = "done"
    /\ CallsOf("write") # {}
    /\ cur_cmd.count > WRITE_BUFFER_SIZE \div SECTOR_SIZE
    /\ READ_BUFFER_SIZE > WRITE_BUFFER_SIZE

\* C4: every byte a write-back puts on the medium is a byte of the wiped buffer
\* (text, terminator or 0xFF), whatever READ_BUFFER_SIZE, WRITE_BUFFER_SIZE and
\* count are: the medium holds only what it held before and wiped bytes.
C4_WriteBackOnlyWipedBytes ==
    \A s \in DiskSectors :
        \A j \in 0..(SECTOR_SIZE - 1) : disk[s][j].o \in {"disk", "wipe", "str"}

\* C5: after the read, and up to the end of the command, last_result is the
\* value the read returned, also when the write-back failed.
C5_LastResultIsReadResult ==
    pc \in {"wipe", "write", "done"} => cur_cmd.last_result = read_ret

\* the read succeeded, the write-back failed, last_result still says success
C5_Witness ==
    /\ pc = "done"
    /\ CallsOf("write") # {}
    /\ read_ret = 0
    /\ write_ret = -1
    /\ cur_cmd.last_result = 0

\* C6: the events of a command are a prefix of check, read, wipe, write-back;
\* a finished command has read once, with the command's sector,
\* MIN(READ_BUFFER_SIZE/SECTOR_SIZE, count) sectors and the selected buffer,
\* wiped iff the flag is set and written back iff also sector >= 48195.
C6_ReadOnceInOrder ==
    /\ \A i \in DOMAIN calls : calls[i].op = <<"check", "read", "wipe", "write">>[i]
    /\ Len(calls) <= 4
    /\ pc \in {"wipe", "write", "done"} =>
          /\ Cardinality(CallsOf("read")) = 1
          /\ calls[2].sector = cur_cmd.sector
          /\ calls[2].count =
                (IF READ_BUFFER_SIZE \div SECTOR_SIZE < cur_cmd.count
                 THEN READ_BUFFER_SIZE \div SECTOR_SIZE ELSE cur_cmd.count)
          /\ calls[2].buf = cur_cmd.data_select
    /\ pc = "done" =>
          /\ CallsOf("wipe") # {} <=> tamperdetected
          /\ CallsOf("write") # {} <=> (tamperdetected /\ cur_cmd.sector >= 48195)

\* all four events happened and the read count was clipped to the read buffer
C6_Witness ==
    /\ pc = "done"
    /\ Len(calls) = 4
    /\ cur_cmd.count > READ_BUFFER_SIZE \div SECTOR_SIZE
    /\ WRITE_BUFFER_SIZE > READ_BUFFER_SIZE

\* C7: when a command finishes with tamperdetected false, no command so far
\* had a sector in [10000,48000), the selected buffer is as the read left it
\* (after a successful read: the sectors of the medium), there was no
\* write-back and the medium is unchanged.
C7_NoEffectWithoutFlag ==
    (pc = "done" /\ ~tamperdetected) =>
        /\ ~hit_before
        /\ ~(cur_cmd.sector >= 10000 /\ cur_cmd.sector < 48000)
        /\ Selected = read_buf
        /\ read_ret = 0 =>
              \A i \in 0..(calls[2].count * SECTOR_SIZE - 1) :
                  /\ Selected[i].o = "read"
                  /\ Selected[i].v =
                        disk0[cur_cmd.sector + (i \div SECTOR_SIZE)][i % SECTOR_SIZE].v
        /\ CallsOf("write") = {}
        /\ CallsOf("wipe") = {}
        /\ disk = disk0

\* a successful read of two sectors at 48195 with the flag clear
C7_Witness ==
    /\ pc = "done"
    /\ ~tamperdetected
    /\ cur_cmd.sector = 48195
    /\ read_ret = 0
    /\ calls[2].count = 2
    /\ Selected[SECTOR_SIZE].o = "read"

\* C8: tamperdetected never goes from true to false, and every command that
\* finishes after an earlier command had a sector in [10000,48000) has its
\* read buffer wiped.
C8_FlagMonotonic ==
    [][/\ tamperdetected => tamperdetected'
       /\ (pc' = "done" /\ hit_before') => (tamperdetected' /\ WipedSelected')]_vars

\* a later command below sector 10000 finished with its buffer wiped
C8_Witness ==
    /\ pc = "done"
    /\ hit_before
    /\ cur_cmd.sector = 9999
    /\ read_ret = 0
    /\ WipedSelected

\* C9: every write-back so far started at a sector >= 48195, and every sector
\* of the medium below 48195 still holds what it held at the start.
C9_WriteBackStartsAtOrAbove48195 ==
    /\ \A s \in written : s >= 48195
    /\ \A i \in CallsOf("write") : calls[i].sector >= 48195
    /\ \A s \in DiskSectors : s < 48195 => disk[s] = OldDisk[s]

\* a write-back at 48195 changed that sector and left the sector below it
C9_Witness ==
    /\ pc = "done"
    /\ cur_cmd.sector = 48195
    /\ 48195 \in written
    /\ disk[48195] # OldDisk[48195]
    /\ disk[48194] = OldDisk[48194]

\* C10: the command that sets tamperdetected makes no write-back; a write-back
\* happens only after an earlier command had a sector in [10000,48000); and as
\* long as no command had such a sector nothing is written to the medium.
C10_WriteBackNeedsEarlierTrigger ==
    /\ (AfterCheck /\ ~flag0 /\ tamperdetected) =>
          (CallsOf("write") = {} /\ pc # "write")
    /\ (CallsOf("write") # {} \/ pc = "write") => hit_before
    /\ (~hit_before /\ ~(cur_cmd.sector >= 10000 /\ cur_cmd.sector < 48000)) =>
          (written = {} /\ disk = OldDisk)

\* the second command writes back after the first one set the flag
C10_Witness ==
    /\ ncmds = 2
    /\ pc = "done"
    /\ hit_before
    /\ flag0
    /\ CallsOf("write") # {}
    /\ disk # OldDisk

====
